---- MODULE Spec2Model ----
(***************************************************************************)
(* A model of ts-ecs (src/src/index.ts): the EntityManager store with its  *)
(* two indices, the Entity handles that forward to it, and the World with  *)
(* its system registry, its TickScheduler and its frame loop.              *)
(*                                                                         *)
(* JavaScript collections are modelled by what the language defines:       *)
(*   - a Map or Set that the code iterates is a sequence in insertion      *)
(*     order (Map.set of a present key keeps its position, Set.add of a    *)
(*     present value is a no-op, delete removes the entry);                *)
(*   - an iterator that is live while entries are deleted walks the entry  *)
(*     list of the collection, in which a deleted entry becomes an empty   *)
(*     slot that the iterator skips, and sees entries appended meanwhile.  *)
(*     World.systems drops the empty slots at once and keeps in iter the   *)
(*     number of entries the live iterator has passed that are still       *)
(*     there, which yields the same visits;                                *)
(*   - a Map or Set that the code never iterates is a function on its key  *)
(*     set, or a set.                                                      *)
(* Maybe<T> is a sequence of length at most one: <<>> is None, <<x>> is    *)
(* Some(x). A boolean result b is recorded as <<b>>.                       *)
(***************************************************************************)
EXTENDS Integers, Sequences, FiniteSets, TLC

\* ------------------------------------------------------------------ bounds

\* Number of createEntity calls explored.
MaxEntities == 2

\* Longest list of constructors passed to withComponents / removeComponents /
\* hasComponents.
MaxCtors == 2

\* ------------------------------------------------------------- value spaces

\* Component classes of the consumer (src/unnamed/part_000 declares Leader,
\* Position, Speed and Circular; two of them are enough to tell kinds apart).
Ctors == {"Position", "Circular"}

\* Component instances: objects, each an instance of one class. Two instances
\* per class, so that replacing an instance is visible.
Instances == [ctor : Ctors, obj : {1, 2}]

\* Entity ids: 1..MaxEntities are the ids uuid.generate hands out, in that
\* order; UnknownId is a string that was never an id.
UnknownId == 0
EntityIds == {UnknownId} \cup (1..MaxEntities)

\* What Map.prototype.get returns for a missing key.
UNDEFINED == [ctor |-> "undefined", obj |-> 0]

\* The marker of a deleted entry in the entry list of a Map or Set.
EMPTY == "empty"

\* Lists of constructors of length 0..MaxCtors (duplicates allowed).
CtorLists == UNION {[1..n -> Ctors] : n \in 0..MaxCtors}

\* --------------------------------------------------------------- variables

VARIABLES
  entities,          \* EntityManager.entities: Set<EntityId>
  entityComponents,  \* EntityManager.entityComponents: Map<EntityId, Map<ctor, Component>>
  componentEntities, \* EntityManager.componentEntities: Map<ctor, Set<EntityId>>
  uuidCount,         \* number of ids uuid.generate has handed out
  op                 \* history: the last API call, its arguments and its result

storeVars == <<entities, entityComponents, componentEntities, uuidCount>>

VARIABLES
  systems,         \* World.systems: Set<System>, as its entry list
  running,         \* World.running
  scheduler,       \* World.scheduler: a scheduler, or NULL
  lastTick,        \* World.lastTick
  nextTickHandle,  \* World.nextTickHandle: <<>> is null/undefined, <<h>> the handle h
  clock,           \* what now() returns
  pending,         \* the callbacks the schedulers hold: scheduled, not fired, not cancelled
  schedCount,      \* per scheduler, the number of scheduleTick calls it has served
  frameStatus,     \* World.tick: "none" before the first frame, "active" inside the
                   \* loop over systems, "completed" or "aborted" after it
  iter,            \* World.tick: entries of systems the loop's iterator has passed
  frameLog,        \* history: the systems whose tick was invoked in this frame, in
                   \* order (the first MaxFrameLog invocations)
  frameDirty,      \* history: addSystem or removeSystem was called since this frame began
  addedInFrame,    \* history: the systems that were not registered and that addSystem
                   \* registered while this frame was in progress, each with whether
                   \* its tick has been invoked since
  configured       \* history: for each system whose hook calls are counted, the
                   \* number of configure calls minus the number of unconfigure
                   \* calls it has received

worldVars == <<systems, running, scheduler, lastTick, nextTickHandle, clock, pending,
               schedCount, frameStatus, iter, frameLog, frameDirty, addedInFrame, configured>>

vars == <<entities, entityComponents, componentEntities, uuidCount, op,
          systems, running, scheduler, lastTick, nextTickHandle, clock, pending,
          schedCount, frameStatus, iter, frameLog, frameDirty, addedInFrame, configured>>

\* ------------------------------------------------- JavaScript Map and Set

\* A Map the code iterates: a sequence of entries [key, value].
MapHas(m, k) == \E i \in 1..Len(m) : m[i].key = k

MapGet(m, k) ==
  IF MapHas(m, k) THEN m[CHOOSE i \in 1..Len(m) : m[i].key = k].value ELSE UNDEFINED

MapSet(m, k, v) ==
  IF MapHas(m, k)
    THEN [i \in 1..Len(m) |-> IF m[i].key = k THEN [key |-> k, value |-> v] ELSE m[i]]
    ELSE Append(m, [key |-> k, value |-> v])

\* A Map kept as an array of entries that delete splices at indexOf(key): for
\* a key that is absent indexOf is -1 and the splice removes the last entry.
MapDeleteSplice(m, k) ==
  IF MapHas(m, k) THEN SelectSeq(m, LAMBDA e : e.key # k) ELSE SubSeq(m, 1, Len(m) - 1)

MapDelete(m, k) == SelectSeq(m, LAMBDA e : e.key # k)

MapKeys(m) == [i \in 1..Len(m) |-> m[i].key]

\* A Set the code iterates: a sequence without repetition.
SetHas(s, x) == \E i \in 1..Len(s) : s[i] = x

SetAdd(s, x) == IF SetHas(s, x) THEN s ELSE Append(s, x)

SetDelete(s, x) == SelectSeq(s, LAMBDA y : y # x)

\* A Map the code never iterates: a function on its key set.
FnSet(f, k, v) == [x \in DOMAIN f \cup {k} |-> IF x = k THEN v ELSE f[x]]

\* Map.prototype.clear in the place of delete.
FnClear(f, k) == <<>>

FnDelete(f, k) == [x \in DOMAIN f \ {k} |-> f[x]]

\* JavaScript truthiness of what a component Map yields: an object is truthy,
\* undefined is not.
Truthy(v) == v # UNDEFINED

\* ----------------------------------------------------------- EntityManager

\* The store as one value, so that methods compose.
em == [entities |-> entities,
       entityComponents |-> entityComponents,
       componentEntities |-> componentEntities]

\* getComponentsForEntity: the store after the call. The Map it returns is
\* entityComponents[entityId] of that store; a missing one is created empty.
getComponentsForEntity(s, entityId) ==
  IF entityId \notin DOMAIN s.entityComponents
    THEN [s EXCEPT !.entityComponents = FnSet(@, entityId, <<>>)]
    ELSE s

\* getEntitiesForComponent: the store after the call. The Set it returns is
\* componentEntities[ctor] of that store; a missing one is created empty.
getEntitiesForComponent(s, ctor) ==
  IF ctor \notin DOMAIN s.componentEntities
    THEN [s EXCEPT !.componentEntities = FnSet(@, ctor, <<>>)]
    ELSE s

\* addComponent on an index kept as an array that it pushes onto.
addComponentPushes(s, entityId, ctor, data) ==
  LET s1 == getComponentsForEntity(s, entityId)
      s2 == [s1 EXCEPT !.entityComponents[entityId] = MapSet(@, ctor, data)]
      s3 == getEntitiesForComponent(s2, ctor)
  IN [s3 EXCEPT !.componentEntities[ctor] = Append(@, entityId)]

addComponent(s, entityId, ctor, data) ==
  LET s1 == getComponentsForEntity(s, entityId)
      s2 == [s1 EXCEPT !.entityComponents[entityId] = MapSet(@, ctor, data)]
      s3 == getEntitiesForComponent(s2, ctor)
  IN  [s3 EXCEPT !.componentEntities[ctor] = SetAdd(@, entityId)]

\* removeComponent without line 303: the inverted index keeps the entity.
removeComponentKeepsIndex(s, entityId, ctor) ==
  LET s1 == getComponentsForEntity(s, entityId)
  IN  [s1 EXCEPT !.entityComponents[entityId] = MapDelete(@, ctor)]

removeComponent(s, entityId, ctor) ==
  LET s1 == getComponentsForEntity(s, entityId)
      s2 == [s1 EXCEPT !.entityComponents[entityId] = MapDelete(@, ctor)]
      s3 == getEntitiesForComponent(s2, ctor)
  IN  [s3 EXCEPT !.componentEntities[ctor] = SetDelete(@, entityId)]

\* removeComponents over an array of constructors.
RECURSIVE removeComponents(_, _, _)
removeComponents(s, entityId, ctors) ==
  IF ctors = <<>> THEN s
  ELSE removeComponents(removeComponent(s, entityId, Head(ctors)), entityId, Tail(ctors))

\* Map.prototype.delete as the live keys() iterator of that Map sees it: the
\* entry of the deleted key becomes an empty slot of the entry list.
IterDelete(slots, k) == [i \in 1..Len(slots) |-> IF slots[i] = k THEN EMPTY ELSE slots[i]]

\* removeComponents over the live iterator entityComponents[entityId].keys():
\* slots is the entry list of the Map the iterator walks, i the next index.
RECURSIVE removeComponentsIter(_, _, _, _)
removeComponentsIter(s, entityId, slots, i) ==
  IF i > Len(slots) THEN s
  ELSE IF slots[i] = EMPTY THEN removeComponentsIter(s, entityId, slots, i + 1)
  ELSE removeComponentsIter(removeComponent(s, entityId, slots[i]), entityId,
                            IterDelete(slots, slots[i]), i + 1)

\* deleteEntity that reports success whatever line 249 finds.
deleteEntityResultTrue(s, entityId) == TRUE

\* deleteEntity: the store after the call; deleteEntityResult is what it returns.
deleteEntityResult(s, entityId) == entityId \in s.entities

\* deleteEntity without line 256: the entity's registrations are not removed.
deleteEntityKeepsComponents(s, entityId) ==
  IF entityId \notin s.entities THEN s
  ELSE [s EXCEPT !.entityComponents = FnDelete(@, entityId),
                 !.entities = @ \ {entityId}]

deleteEntity(s, entityId) ==
  IF entityId \notin s.entities THEN s
  ELSE
    LET s1 == getComponentsForEntity(s, entityId)
        s2 == removeComponentsIter(s1, entityId, MapKeys(s1.entityComponents[entityId]), 1)
    IN  [s2 EXCEPT !.entityComponents = FnDelete(@, entityId),
                   !.entities = @ \ {entityId}]

\* getComponent: getComponentResult is the Maybe it returns, getComponent the
\* store after the call.
getComponentResult(s, entityId, ctor) ==
  LET comp == MapGet(getComponentsForEntity(s, entityId).entityComponents[entityId], ctor)
  IN  IF Truthy(comp) THEN <<comp>> ELSE <<>>

\* getComponent that reads entityComponents without creating the entry.
getComponentReadOnly(s, entityId, ctor) == s

getComponent(s, entityId, ctor) == getComponentsForEntity(s, entityId)

\* getEntitiesWithComponents for a non-empty list of constructors: the array
\* it returns, and the store after the call.
RECURSIVE getEntitiesForComponents(_, _)
getEntitiesForComponents(s, ctors) ==
  IF ctors = <<>> THEN s
  ELSE getEntitiesForComponents(getEntitiesForComponent(s, Head(ctors)), Tail(ctors))

getEntitiesWithComponents(s, ctors) == getEntitiesForComponents(s, ctors)

\* getEntitiesWithComponents with `some` for `every` on line 287.
getEntitiesWithComponentsSome(s, ctors) ==
  LET s1       == getEntitiesForComponents(s, ctors)
      sets     == [i \in 1..Len(ctors) |-> s1.componentEntities[ctors[i]]]
      firstSet == sets[1]
  IN  SelectSeq(firstSet, LAMBDA entityId : \E i \in 1..Len(sets) : SetHas(sets[i], entityId))

getEntitiesWithComponentsResult(s, ctors) ==
  LET s1       == getEntitiesForComponents(s, ctors)
      sets     == [i \in 1..Len(ctors) |-> s1.componentEntities[ctors[i]]]
      firstSet == sets[1]
  IN  SelectSeq(firstSet, LAMBDA entityId : \A i \in 1..Len(sets) : SetHas(sets[i], entityId))

\* getEntity without the check of line 240: a handle for whatever id.
getEntityUnchecked(s, id) == <<id>>

\* getEntity: Some(handle) iff the id is live; a handle is its entity id.
getEntity(s, id) == IF id \in s.entities THEN <<id>> ELSE <<>>

\* ------------------------------------------------------------------ Entity

\* Entity.hasComponents: getComponent for each constructor, in order.
RECURSIVE hasComponents(_, _, _)
hasComponents(s, entityId, ctors) ==
  IF ctors = <<>> THEN s
  ELSE hasComponents(getComponent(s, entityId, Head(ctors)), entityId, Tail(ctors))

hasComponentsResult(s, entityId, ctors) ==
  \A i \in 1..Len(ctors) : getComponentResult(s, entityId, ctors[i]) # <<>>

\* Entity.isValid.
isValid(s, entityId) == getEntity(s, entityId) # <<>>

\* The ids Entity handles exist for: createEntity and getEntity are the only
\* ways to obtain a handle, so every id that was ever handed out.
Handles == 1..uuidCount

\* ----------------------------------------------------------------- history

\* The last call: its name, the entity id it was about (0 if none), the system
\* or scheduler it was passed ("" if none), what it returned (<<>> for void),
\* for deleteEntity the constructors the entity held when it was called, and
\* for addComponent the instance passed and (held) the instance the entity had
\* under its constructor when it was called.
CallComp(name, id, comp, held, ret) ==
  [name |-> name, id |-> id, arg |-> "", comp |-> comp, held |-> held, ret |-> ret]

CallPre(name, id, held, ret) == CallComp(name, id, <<>>, held, ret)

Call(name, id, ret) == CallPre(name, id, <<>>, ret)

WorldCall(name, arg) ==
  [name |-> name, id |-> 0, arg |-> arg, comp |-> <<>>, held |-> <<>>, ret |-> <<>>]

\* The constructors an id has an entry for in entityComponents, in Map order.
HeldCtors(id) ==
  IF id \in DOMAIN entityComponents THEN MapKeys(entityComponents[id]) ELSE <<>>

\* ------------------------------------------------------------ store actions

SetStore(s) ==
  /\ entities' = s.entities
  /\ entityComponents' = s.entityComponents
  /\ componentEntities' = s.componentEntities

\* uuid.generate(): a token no earlier call returned (src/src/uuid.ts is not
\* part of the sources; the ids are numbered in the order they are handed out).
uuidGenerate == uuidCount + 1

\* World.createEntity -> EntityManager.createEntity.
CreateEntity ==
  /\ uuidCount < MaxEntities
  /\ LET id == uuidGenerate IN
       /\ uuidCount' = id
       /\ entities' = entities \cup {id}
       /\ op' = Call("createEntity", id, <<id>>)
  /\ UNCHANGED <<entityComponents, componentEntities, worldVars>>

\* World.getEntity(entityId), for any id string.
GetEntity ==
  \E id \in EntityIds :
    /\ op' = Call("getEntity", id, getEntity(em, id))
    /\ UNCHANGED <<storeVars, worldVars>>

\* World.deleteEntity(entityId) for any id string, or destroy() on a handle.
DeleteEntity ==
  \E id \in EntityIds :
    /\ SetStore(deleteEntity(em, id))
    /\ op' = CallPre("deleteEntity", id, HeldCtors(id), <<deleteEntityResult(em, id)>>)
    /\ UNCHANGED <<uuidCount, worldVars>>

\* Entity.addComponent(component) on a handle: the constructor is the
\* component's own.
AddComponent ==
  \E id \in Handles, component \in Instances :
    /\ SetStore(addComponent(em, id, component.ctor, component))
    /\ op' = CallComp("addComponent", id, <<component>>,
                      getComponentResult(em, id, component.ctor), <<>>)
    /\ UNCHANGED <<uuidCount, worldVars>>

\* Entity.removeComponents(...ctors) on a handle.
RemoveComponents ==
  \E id \in Handles, ctors \in CtorLists :
    /\ SetStore(removeComponents(em, id, ctors))
    /\ op' = Call("removeComponents", id, <<>>)
    /\ UNCHANGED <<uuidCount, worldVars>>

\* Entity.getComponent(ctor) on a handle.
GetComponent ==
  \E id \in Handles, ctor \in Ctors :
    /\ SetStore(getComponent(em, id, ctor))
    /\ op' = Call("getComponent", id, getComponentResult(em, id, ctor))
    /\ UNCHANGED <<uuidCount, worldVars>>

\* Entity.hasComponents(...ctors) on a handle.
HasComponents ==
  \E id \in Handles, ctors \in CtorLists :
    /\ SetStore(hasComponents(em, id, ctors))
    /\ op' = Call("hasComponents", id, <<hasComponentsResult(em, id, ctors)>>)
    /\ UNCHANGED <<uuidCount, worldVars>>

\* Entity.isValid() on a handle.
IsValid ==
  \E id \in Handles :
    /\ op' = Call("isValid", id, <<isValid(em, id)>>)
    /\ UNCHANGED <<storeVars, worldVars>>

\* World.withComponents(...ctors) with at least one constructor.
WithComponents ==
  \E ctors \in CtorLists \ {<<>>} :
    /\ SetStore(getEntitiesWithComponents(em, ctors))
    /\ op' = Call("withComponents", 0, getEntitiesWithComponentsResult(em, ctors))
    /\ UNCHANGED <<uuidCount, worldVars>>

\* World.withComponents() without a constructor throws before touching the store.
WithComponentsThrows ==
  /\ op' = Call("withComponents throws", 0, <<>>)
  /\ UNCHANGED <<storeVars, worldVars>>

StoreNext ==
  \/ CreateEntity
  \/ GetEntity
  \/ DeleteEntity
  \/ AddComponent
  \/ RemoveComponents
  \/ GetComponent
  \/ HasComponents
  \/ IsValid
  \/ WithComponents
  \/ WithComponentsThrows


\* ------------------------------------------------------------------- World

\* Bounds of the world model: the readings of the clock, and the number of
\* scheduleTick calls explored.
MaxTime == 1

MaxScheduleCalls == 3

\* Number of tick invocations of one frame that frameLog records.
MaxFrameLog == 3

\* Number of configure or unconfigure calls explored beyond those that a
\* system's registration accounts for.
MaxUnbalanced == 2

\* The consumer's systems (src/unnamed/part_000 registers three; two are
\* enough to tell orders apart).
Systems == {"S1", "S2"}

\* Tick schedulers. "raf" is DefaultScheduler: requestAnimationFrame returns a
\* non-zero request id and cancelAnimationFrame cancels it. "idx" is a consumer's
\* scheduler whose handles count from 0 (an index into its own queue) and whose
\* cancelTick cancels.
Schedulers == {"raf", "idx"}

NULL == "null"

\* now()
now == clock

\* The handle a scheduler returns for its n-th scheduleTick call.
HandleOf(s, n) ==
  CASE s = "raf" -> <<n>>
    [] s = "idx" -> <<n - 1>>

\* scheduleTick(this.tick) on scheduler s: the callback it now holds, the handle
\* it returns, and its state after the call.
scheduleTickEntry(s) == [sched |-> s, n |-> schedCount[s] + 1]

scheduleTickResult(s) == HandleOf(s, schedCount[s] + 1)

scheduleTick(s) ==
  /\ pending' = pending \cup {scheduleTickEntry(s)}
  /\ schedCount' = [schedCount EXCEPT ![s] = @ + 1]

\* cancelTick(handle) on scheduler s: the callbacks it holds afterwards.
cancelTick(s, handle) ==
  {e \in pending : ~(e.sched = s /\ HandleOf(e.sched, e.n) = handle)}

\* JavaScript truthiness of a tick handle: null, undefined and 0 are falsy.
TruthyHandle(h) == h # <<>> /\ h # <<0>>

ScheduleCalls == schedCount["raf"] + schedCount["idx"]

\* Consumer code is running: between frames, or inside the tick of the system
\* the loop invoked last.
InConsumerCode == frameStatus # "active" \/ iter > 0

\* systems kept as an array that addSystem unshifts onto.
systemsAddFront(system) == IF SetHas(systems, system) THEN systems ELSE <<system>> \o systems

\* Set.prototype.add / delete on systems.
systemsAdd(system) == IF SetHas(systems, system) THEN systems ELSE Append(systems, system)

systemsDelete(system) == SetDelete(systems, system)

\* The position of the loop's iterator after systems.delete(system): an entry
\* it has passed leaves the entries counted by iter.
iterAfterDelete(system) ==
  IF frameStatus = "active" /\ \E i \in 1..iter : systems[i] = system THEN iter - 1 ELSE iter

\* An iterator that walks the entry list from its end.
IterNextFromEnd == IF iter < Len(systems) THEN Len(systems) ELSE 0

\* The index of the entry the iterator yields next, 0 if it is done.
IterNext == IF iter < Len(systems) THEN iter + 1 ELSE 0

\* How far the configure calls a system has received exceed what its
\* registration accounts for: one if it is registered, none otherwise.
Unbalanced(system) == configured[system] - (IF SetHas(systems, system) THEN 1 ELSE 0)

\* system.configure(this) / system.unconfigure(this), as the counts see them.
configure(system) ==
  [s \in DOMAIN configured |-> IF s = system THEN configured[s] + 1 ELSE configured[s]]

unconfigure(system) ==
  [s \in DOMAIN configured |-> IF s = system THEN configured[s] - 1 ELSE configured[s]]

\* World.addSystem(system): configure, then add.
addSystem(system) ==
  /\ systems' = systemsAdd(system)
  /\ frameDirty' = TRUE
  /\ addedInFrame' = IF frameStatus = "active" /\ ~SetHas(systems, system)
                       THEN FnSet(addedInFrame, system, FALSE) ELSE addedInFrame
  /\ system \in DOMAIN configured => Unbalanced(system) < MaxUnbalanced
  /\ configured' = configure(system)
  /\ op' = WorldCall("addSystem", system)
  /\ UNCHANGED <<storeVars, running, scheduler, lastTick, nextTickHandle, clock, pending,
                 schedCount, frameStatus, iter, frameLog>>

\* World.removeSystem(system): delete, then unconfigure.
removeSystem(system) ==
  /\ systems' = systemsDelete(system)
  /\ iter' = iterAfterDelete(system)
  /\ frameDirty' = TRUE
  /\ system \in DOMAIN configured => Unbalanced(system) > -MaxUnbalanced
  /\ configured' = unconfigure(system)
  /\ op' = WorldCall("removeSystem", system)
  /\ UNCHANGED <<storeVars, running, scheduler, lastTick, nextTickHandle, clock, pending,
                 schedCount, frameStatus, frameLog, addedInFrame>>

\* start without the guard of lines 181-183.
startUnguarded(tickScheduler) ==
  /\ op' = WorldCall("start", tickScheduler)
  /\ ScheduleCalls < MaxScheduleCalls
  /\ running' = TRUE
  /\ lastTick' = now
  /\ scheduler' = tickScheduler
  /\ nextTickHandle' = scheduleTickResult(tickScheduler)
  /\ scheduleTick(tickScheduler)
  /\ UNCHANGED <<storeVars, systems, clock, frameStatus, iter, frameLog, frameDirty, addedInFrame, configured>>

\* World.start(tickScheduler)
start(tickScheduler) ==
  /\ op' = WorldCall("start", tickScheduler)
  /\ IF running
       THEN UNCHANGED <<running, lastTick, scheduler, nextTickHandle, pending, schedCount>>
       ELSE /\ ScheduleCalls < MaxScheduleCalls
            /\ running' = TRUE
            /\ lastTick' = now
            /\ scheduler' = tickScheduler
            /\ nextTickHandle' = scheduleTickResult(tickScheduler)
            /\ scheduleTick(tickScheduler)
  /\ UNCHANGED <<storeVars, systems, clock, frameStatus, iter, frameLog, frameDirty, addedInFrame, configured>>

\* World.stop()
stop ==
  /\ op' = WorldCall("stop", "")
  /\ IF running
       THEN /\ running' = FALSE
            /\ IF TruthyHandle(nextTickHandle)
                 THEN /\ pending' = cancelTick(scheduler, nextTickHandle)
                      /\ nextTickHandle' = <<>>
                 ELSE UNCHANGED <<pending, nextTickHandle>>
       ELSE UNCHANGED <<running, pending, nextTickHandle>>
  /\ UNCHANGED <<storeVars, systems, scheduler, lastTick, clock, schedCount, frameStatus, iter,
                 frameLog, frameDirty, addedInFrame, configured>>

\* tick without the guard of line 205.
tickUnguarded(e) ==
  /\ e \in pending
  /\ pending' = pending \ {e}
  /\ op' = WorldCall("tick", e.sched)
  /\ lastTick' = now
  /\ frameStatus' = "active"
  /\ iter' = 0
  /\ frameLog' = <<>>
  /\ frameDirty' = FALSE
  /\ addedInFrame' = <<>>
  /\ UNCHANGED <<storeVars, systems, running, scheduler, nextTickHandle, clock, schedCount,
                 configured>>

\* World.tick, entered: a scheduler fires the callback e it holds. A running
\* world reads the clock and enters the loop over systems.values().
tick(e) ==
  /\ e \in pending
  /\ pending' = pending \ {e}
  /\ op' = WorldCall("tick", e.sched)
  /\ IF running
       THEN /\ lastTick' = now
            /\ frameStatus' = "active"
            /\ iter' = 0
            /\ frameLog' = <<>>
            /\ frameDirty' = FALSE
            /\ addedInFrame' = <<>>
       ELSE UNCHANGED <<lastTick, frameStatus, iter, frameLog, frameDirty, addedInFrame>>
  /\ UNCHANGED <<storeVars, systems, running, scheduler, nextTickHandle, clock, schedCount,
                 configured>>

\* World.tick, the loop: the iterator yields the next system and its tick is
\* invoked.
tickSystem ==
  /\ frameStatus = "active"
  /\ IterNext # 0
  /\ iter' = IterNext
  /\ frameLog' = IF Len(frameLog) < MaxFrameLog
                   THEN Append(frameLog, systems[IterNext]) ELSE frameLog
  /\ addedInFrame' = [s \in DOMAIN addedInFrame |-> addedInFrame[s] \/ s = systems[IterNext]]
  /\ op' = WorldCall("system.tick", systems[IterNext])
  /\ UNCHANGED <<storeVars, systems, running, scheduler, lastTick, nextTickHandle, clock, pending,
                 schedCount, frameStatus, frameDirty, configured>>

\* World.tick without line 214: the frame ends and schedules nothing.
tickEndNoSchedule ==
  /\ frameStatus = "active"
  /\ IterNext = 0
  /\ frameStatus' = "completed"
  /\ iter' = 0
  /\ op' = WorldCall("tick returns", "")
  /\ UNCHANGED <<storeVars, systems, running, scheduler, lastTick, nextTickHandle, clock, pending,
                 schedCount, frameLog, frameDirty, addedInFrame, configured>>

\* World.tick, after the loop: the iterator is done and the next tick is
\* scheduled.
tickEnd ==
  /\ frameStatus = "active"
  /\ IterNext = 0
  /\ ScheduleCalls < MaxScheduleCalls
  /\ nextTickHandle' = scheduleTickResult(scheduler)
  /\ scheduleTick(scheduler)
  /\ frameStatus' = "completed"
  /\ iter' = 0
  /\ op' = WorldCall("tick returns", "")
  /\ UNCHANGED <<storeVars, systems, running, scheduler, lastTick, clock, frameLog, frameDirty,
                 addedInFrame, configured>>

\* World.tick, left by an exception: the tick of the system invoked last throws,
\* and the exception leaves the loop and World.tick.
tickThrows ==
  /\ frameStatus = "active"
  /\ iter > 0
  /\ frameStatus' = "aborted"
  /\ iter' = 0
  /\ op' = WorldCall("tick throws", "")
  /\ UNCHANGED <<storeVars, systems, running, scheduler, lastTick, nextTickHandle, clock, pending,
                 schedCount, frameLog, frameDirty, addedInFrame, configured>>

\* ------------------------------------------------------------ world actions

\* Time passes.
Advance ==
  /\ clock < MaxTime
  /\ clock' = clock + 1
  /\ UNCHANGED <<storeVars, systems, running, scheduler, lastTick, nextTickHandle, pending,
                 schedCount, frameStatus, iter, frameLog, frameDirty, addedInFrame, configured, op>>

AddSystem == InConsumerCode /\ \E system \in Systems : addSystem(system)

RemoveSystem == InConsumerCode /\ \E system \in Systems : removeSystem(system)

Start == InConsumerCode /\ \E tickScheduler \in Schedulers : start(tickScheduler)

Stop == InConsumerCode /\ stop

\* A scheduler runs a callback only when no other code is running.
FireTick == frameStatus # "active" /\ \E e \in pending : tick(e)

WorldNext ==
  \/ Advance
  \/ AddSystem
  \/ RemoveSystem
  \/ Start
  \/ Stop
  \/ FireTick
  \/ tickSystem
  \/ tickEnd
  \/ tickThrows

\* ----------------------------------------------------------- specifications

\* The state after new World(), with the set of systems whose hook calls are
\* counted.
InitCounting(counted) ==
  /\ configured = [system \in counted |-> 0]
  /\ entities = {}
  /\ entityComponents = <<>>
  /\ componentEntities = <<>>
  /\ uuidCount = 0
  /\ op = Call("new World", 0, <<>>)
  /\ systems = <<>>
  /\ running = FALSE
  /\ scheduler = NULL
  /\ lastTick = 0
  /\ nextTickHandle = <<>>
  /\ clock = 0
  /\ pending = {}
  /\ schedCount = [s \in Schedulers |-> 0]
  /\ frameStatus = "none"
  /\ iter = 0
  /\ frameLog = <<>>
  /\ frameDirty = FALSE
  /\ addedInFrame = <<>>

Init == InitCounting({})

\* A store call, made by consumer code.
StoreStep == InConsumerCode /\ StoreNext

Next == StoreStep \/ WorldNext

\* The whole program.
Spec == Init /\ [][Next]_vars

\* The EntityManager and the World share no field: World's entity methods only
\* forward to the store, and no store method reads the World. SpecStore is the
\* program with a World that is never started and has no system, SpecWorld the
\* program whose consumer makes no store call.
SpecStore == Init /\ [][StoreNext]_vars

SpecWorld == Init /\ [][WorldNext]_vars

\* The World whose consumer registers and removes systems and counts the hook
\* calls each of them receives.
HooksNext == AddSystem \/ RemoveSystem

SpecHooks == InitCounting(Systems) /\ [][HooksNext]_vars

\* stop() called on an idle world only: once start() was called, never again.
StopIdle == ~running /\ Stop

\* World.tick proceeds: the tick of the system invoked last returns, and the
\* loop invokes the next one or ends.
LoopStep == tickSystem \/ tickEnd

LiveNext ==
  \/ Advance
  \/ AddSystem
  \/ RemoveSystem
  \/ Start
  \/ StopIdle
  \/ FireTick
  \/ tickSystem
  \/ tickEnd

\* The World whose consumer never stops it once started and whose systems'
\* ticks return without throwing, under a scheduler that fires every callback
\* it holds: a pending callback is eventually run (the event loop runs
\* requestAnimationFrame callbacks), and the single-threaded loop of World.tick
\* eventually takes its next step.
SpecLive ==
  /\ Init
  /\ [][LiveNext]_vars
  /\ WF_vars(FireTick)
  /\ WF_vars(LoopStep)

\* ------------------------------------------------------------------ claims

Range(f) == {f[i] : i \in DOMAIN f}

\* k is a key of entityComponents[e] / e is a member of componentEntities[k].
InByEntity(e, k) == e \in DOMAIN entityComponents /\ MapHas(entityComponents[e], k)

InByKind(e, k) == k \in DOMAIN componentEntities /\ SetHas(componentEntities[k], e)

\* C1. Index symmetry: in every reachable state of the store, for every entity
\* id e and every constructor k, k is a key of entityComponents[e] iff e is a
\* member of componentEntities[k]; calls on ids that are not live included.
C1_IndexSymmetry ==
  \A e \in EntityIds, k \in Ctors : InByEntity(e, k) <=> InByKind(e, k)

\* C1 witness: addComponent was just called through a handle whose entity is
\* deleted, and both indices now hold the registration.
C1_Witness ==
  /\ op.name = "addComponent"
  /\ op.id \notin entities
  /\ \E k \in Ctors : InByEntity(op.id, k) /\ InByKind(op.id, k)

\* C2. Query correctness: for every non-empty list of constructors, duplicates
\* and any order allowed, withComponents returns each id at most once, returns
\* exactly the ids for which getComponent is Some for every listed constructor,
\* and as a set returns the same for every list with the same constructors.
C2_QueryCorrect ==
  \A ctors \in CtorLists \ {<<>>} :
    LET result == getEntitiesWithComponentsResult(em, ctors) IN
      /\ \A i, j \in 1..Len(result) : result[i] = result[j] => i = j
      /\ \A e \in EntityIds :
           e \in Range(result) <=>
             \A i \in 1..Len(ctors) : getComponentResult(em, e, ctors[i]) # <<>>
      /\ \A other \in CtorLists \ {<<>>} :
           Range(other) = Range(ctors) =>
             Range(getEntitiesWithComponentsResult(em, other)) = Range(result)

\* C2 witness: withComponents was just called with two different constructors
\* and returned one entity while the first constructor's set holds two.
C2_Witness ==
  /\ op.name = "withComponents"
  /\ Len(op.ret) = 1
  /\ \E ctors \in CtorLists :
       /\ Len(ctors) = 2
       /\ ctors[1] # ctors[2]
       /\ getEntitiesWithComponentsResult(em, ctors) = op.ret
       /\ ctors[1] \in DOMAIN componentEntities
       /\ Len(componentEntities[ctors[1]]) = 2

\* C3. An id that is not live exposes no component: getComponent on it, through
\* the store or a handle, is None for every constructor, and no withComponents
\* result contains it.
C3_DeadExposesNothing ==
  \A e \in EntityIds \ entities :
    /\ \A k \in Ctors : getComponentResult(em, e, k) = <<>>
    /\ \A ctors \in CtorLists \ {<<>>} :
         e \notin Range(getEntitiesWithComponentsResult(em, ctors))

\* C9. Deletion completeness: right after deleteEntity(e) returned true, e is
\* not live, getEntity(e) is None, entityComponents has no entry for e, e is in
\* no set of componentEntities and getComponent(e, k) is None for every k.
C9_DeletionComplete ==
  (op.name = "deleteEntity" /\ op.ret = <<TRUE>>) =>
    /\ op.id \notin entities
    /\ getEntity(em, op.id) = <<>>
    /\ op.id \notin DOMAIN entityComponents
    /\ \A k \in Ctors : ~InByKind(op.id, k) /\ getComponentResult(em, op.id, k) = <<>>

\* C9 witness: deleteEntity just returned true for an entity that held two
\* constructors, another entity still holding one.
C9_Witness ==
  /\ op.name = "deleteEntity"
  /\ op.ret = <<TRUE>>
  /\ Len(op.held) = 2
  /\ \E e \in entities, k \in Ctors : InByKind(e, k)

\* C4. Post-stop race: a tick callback that fires while the world is idle
\* invokes no system's tick, does not change lastTick and schedules no tick: it
\* only leaves the scheduler that held it.
C4_IdleTickDoesNothing ==
  [][(op'.name = "tick" /\ ~running /\ pending' # pending) =>
       /\ UNCHANGED <<lastTick, frameStatus, iter, frameLog, schedCount, nextTickHandle,
                      running, systems>>
       /\ pending' \subseteq pending]_vars

\* C4 witness: a callback has just fired in an idle world that has a system,
\* after the clock moved past lastTick.
C4_Witness ==
  /\ op.name = "tick"
  /\ ~running
  /\ frameStatus # "active"
  /\ systems # <<>>
  /\ clock > lastTick

\* C5. System ordering: the registry lists the systems in the order of their
\* latest registration (addSystem of a system that is not registered appends
\* it, removeSystem keeps the order of the others), and in a frame during which
\* no system is added or removed the ticks invoked so far are those of the
\* first systems of the registry, in that order, each once; when the frame
\* completes they are those of all registered systems.
C5_SystemOrdering ==
  /\ [](~frameDirty =>
         /\ frameStatus = "active" => frameLog = SubSeq(systems, 1, iter)
         /\ frameStatus = "completed" => frameLog = systems)
  /\ [][(op'.name = "addSystem" /\ systems' # systems) =>
          systems' = Append(systems, op'.arg)]_vars
  /\ [][(op'.name = "removeSystem" /\ systems' # systems) =>
          systems' = SetDelete(systems, op'.arg)]_vars

\* C5 witness: a frame without registry change has completed after ticking S2
\* and then S1, the order in which they were registered.
C5_Witness ==
  /\ op.name = "tick returns"
  /\ ~frameDirty
  /\ systems = <<"S2", "S1">>
  /\ frameLog = <<"S2", "S1">>

\* C6. At the end of a frame the next tick is scheduled only if the world is
\* still running: when the world is idle as World.tick returns, that return
\* makes no scheduleTick call and adds no pending tick.
C6_NoScheduleWhenStopped ==
  [][(op'.name = "tick returns" /\ frameStatus = "active" /\ ~running) =>
       (schedCount' = schedCount /\ pending' = pending)]_vars

\* C7. After stop() returned and until the next start(), no system's tick is
\* invoked: whenever a system's tick has just been invoked the world is running.
C7_NoTickWhileIdle == op.name = "system.tick" => running

\* C8. Redundant lifecycle calls are no-ops: start() on a running world leaves
\* running, lastTick, the stored scheduler, the pending handle and the
\* schedulers' callbacks unchanged, whichever scheduler is passed; stop() on an
\* idle world cancels nothing and changes nothing.
C8_RedundantCallsAreNoOps ==
  [][/\ (op'.name = "start" /\ running) =>
          UNCHANGED <<running, lastTick, scheduler, nextTickHandle, pending, schedCount>>
     /\ (op'.name = "stop" /\ ~running) =>
          UNCHANGED <<running, lastTick, scheduler, nextTickHandle, pending, schedCount>>]_vars

\* C8 witness: start() was just called on a running world with a scheduler
\* other than the stored one, and exactly one tick is pending.
C8_Witness ==
  /\ op.name = "start"
  /\ running
  /\ op.arg # scheduler
  /\ Cardinality(pending) = 1

\* C10, as claimed. A system added with addSystem while a frame is in progress
\* is not ticked in that frame.
C10_AddedNotTickedInFrame ==
  (op.name = "system.tick" /\ frameStatus = "active") => op.arg \notin DOMAIN addedInFrame

\* C10, amended. A system that was not registered and that addSystem registered
\* while a frame is in progress is ticked in that same frame, if it is still
\* registered when the frame completes.
C10_AddedTickedInFrame ==
  op.name = "tick returns" =>
    \A system \in DOMAIN addedInFrame : SetHas(systems, system) => addedInFrame[system]

\* C10 witness: a frame has completed in which S2 was registered from inside
\* S1's tick, and S2 was ticked after S1.
C10_Witness ==
  /\ op.name = "tick returns"
  /\ DOMAIN addedInFrame = {"S2"}
  /\ addedInFrame["S2"]
  /\ frameLog = <<"S1", "S2">>

\* C11. At most one tick callback of the world is pending in its scheduler at
\* any moment, for every interleaving of start(), stop() and tick firings,
\* those made from inside a system's tick included, when cancelTick reliably
\* cancels: stated for the runs that only ever used DefaultScheduler, whose
\* handles are never falsy.
C11_AtMostOnePending ==
  schedCount["idx"] = 0 => Cardinality(pending) <= 1

\* The number of times e occurs in a sequence.
Occurrences(seq, e) == Cardinality({i \in 1..Len(seq) : seq[i] = e})

\* C12. Single instance per kind: addComponent(e, K, b) on a live entity e,
\* also when e already holds an instance a under K, leaves getComponent(e, K)
\* yielding b and e occurring exactly once in withComponents(K), and leaves the
\* instance e holds under every other kind unchanged.
C12_SingleInstancePerKind ==
  [][(op'.name = "addComponent" /\ op'.id \in entities) =>
       LET e == op'.id
           K == op'.comp[1].ctor
       IN /\ getComponentResult(em', e, K) = op'.comp
          /\ Occurrences(getEntitiesWithComponentsResult(em', <<K>>), e) = 1
          /\ \A k \in Ctors \ {K} :
               getComponentResult(em', e, k) = getComponentResult(em, e, k)]_vars

\* C12 witness: addComponent has just replaced the instance a live entity held
\* under a kind by another one, while the entity holds an instance of the
\* other kind.
C12_Witness ==
  /\ op.name = "addComponent"
  /\ op.id \in entities
  /\ op.held # <<>>
  /\ op.held # op.comp
  /\ \A k \in Ctors : getComponentResult(em, op.id, k) # <<>>

\* C13. deleteEntity(id) returns true if and only if id was live when it was
\* called; when it returns false it leaves the live set and both indices
\* unchanged; and id is not live afterwards, so that a second deleteEntity(id)
\* returns false.
C13_DeleteEntityResult ==
  [][op'.name = "deleteEntity" =>
       /\ op'.ret = <<op'.id \in entities>>
       /\ op'.ret = <<FALSE>> => UNCHANGED <<entities, entityComponents, componentEntities>>
       /\ op'.id \notin entities'
       /\ deleteEntityResult(em', op'.id) = FALSE]_vars

\* C13 witness: deleteEntity has just returned false for an id that was live
\* once, while another entity is live and holds a component.
C13_Witness ==
  /\ op.name = "deleteEntity"
  /\ op.ret = <<FALSE>>
  /\ op.id \in Handles
  /\ \E e \in entities, k \in Ctors : InByEntity(e, k)

\* What a consumer can observe of a store: which ids are live (getEntity,
\* isValid), what getComponent yields for every id and kind, and what
\* withComponents yields for every list of kinds.
Observable(s) ==
  [live |-> s.entities,
   get  |-> [e \in EntityIds, k \in Ctors |-> getComponentResult(s, e, k)],
   with |-> [ctors \in CtorLists \ {<<>>} |-> getEntitiesWithComponentsResult(s, ctors)]]

\* C14. Idempotent removal: in every reachable state, for every live entity e
\* and every list of kinds, removeComponents(e, kinds) called twice in a row
\* leaves the same observable store as called once, and when e holds none of
\* the kinds the call changes nothing observable.
C14_RemovalIdempotent ==
  \A e \in entities, ctors \in CtorLists :
    LET once  == removeComponents(em, e, ctors)
        twice == removeComponents(once, e, ctors)
    IN /\ Observable(twice) = Observable(once)
       /\ (\A i \in 1..Len(ctors) : getComponentResult(em, e, ctors[i]) = <<>>) =>
            Observable(once) = Observable(em)

\* C14 witness: removeComponents has just been called on a live entity that
\* still holds one kind and lacks the other, while another id is in the index
\* of the kind it holds.
C14_Witness ==
  /\ op.name = "removeComponents"
  /\ op.id \in entities
  /\ \E k \in Ctors :
       /\ InByEntity(op.id, k)
       /\ \A k2 \in Ctors \ {k} : ~InByEntity(op.id, k2)
       /\ \E e \in Handles \ {op.id} : InByKind(e, k)

\* C15. stop() on a running world that has a tick pending under the handle it
\* stores cancels that tick, whatever non-null value the scheduler uses as
\* handle (the falsy handle 0 included), and leaves the world without a
\* stored handle.
C15_StopCancelsPending ==
  [][(/\ op'.name = "stop"
      /\ running
      /\ nextTickHandle # <<>>
      /\ \E e \in pending : e.sched = scheduler /\ HandleOf(e.sched, e.n) = nextTickHandle) =>
       /\ pending' = cancelTick(scheduler, nextTickHandle)
       /\ pending' # pending
       /\ nextTickHandle' = <<>>]_vars

C17_HooksBalanced ==
  \A system \in DOMAIN configured :
    configured[system] = IF SetHas(systems, system) THEN 1 ELSE 0

\* What a store shows of one id: its liveness and what getComponent yields for
\* every kind.
ObservableOf(s, e) ==
  [live |-> e \in s.entities, get |-> [k \in Ctors |-> getComponentResult(s, e, k)]]

\* C18. Frame condition of store mutations: in every reachable state,
\* addComponent(e, k, c), removeComponents(e, kinds) and deleteEntity(e) leave
\* the liveness and the getComponent results of every id other than e
\* unchanged, and addComponent and removeComponents leave what e holds under
\* every kind they do not name unchanged.
C18_FrameCondition ==
  /\ \A e \in Handles, c \in Instances :
       LET s == addComponent(em, e, c.ctor, c)
       IN /\ \A e2 \in EntityIds \ {e} : ObservableOf(s, e2) = ObservableOf(em, e2)
          /\ \A k \in Ctors \ {c.ctor} :
               getComponentResult(s, e, k) = getComponentResult(em, e, k)
          /\ e \in s.entities <=> e \in entities
  /\ \A e \in Handles, ctors \in CtorLists :
       LET s == removeComponents(em, e, ctors)
       IN /\ \A e2 \in EntityIds \ {e} : ObservableOf(s, e2) = ObservableOf(em, e2)
          /\ \A k \in Ctors \ Range(ctors) :
               getComponentResult(s, e, k) = getComponentResult(em, e, k)
          /\ e \in s.entities <=> e \in entities
  /\ \A e \in EntityIds :
       LET s == deleteEntity(em, e)
       IN \A e2 \in EntityIds \ {e} : ObservableOf(s, e2) = ObservableOf(em, e2)

\* C18 witness: removeComponents has just been called on a live entity that
\* holds both kinds no longer, while the other entity is live and holds both
\* kinds.
C18_Witness ==
  /\ op.name = "removeComponents"
  /\ op.id \in entities
  /\ \E k \in Ctors : ~InByEntity(op.id, k)
  /\ \E e \in entities \ {op.id} : \A k \in Ctors : InByEntity(e, k)

\* C19. Deletion is permanent: an id that was handed out and is not live (it
\* was deleted) is not live after any further step, whatever the operation,
\* addComponent or getComponent through a stale handle and createEntity
\* included: getEntity(id) is None and isValid() is false on its handles.
C19_DeletionPermanent ==
  [][\A id \in Handles :
       id \notin entities =>
         /\ id \notin entities'
         /\ getEntity(em', id) = <<>>
         /\ ~isValid(em', id)]_vars

\* C19 witness: createEntity has just returned a new id after the first id was
\* deleted and was given a component through a stale handle; the first id is
\* not live.
C19_Witness ==
  /\ op.name = "createEntity"
  /\ op.id = 2
  /\ 1 \notin entities
  /\ getEntity(em, 1) = <<>>
  /\ \E k \in Ctors : InByEntity(1, k)

====
